---- MODULE Spec2Model ----
(***************************************************************************)
(* Model of the rs_db_parser crate: the span-tracked primitive parsers,    *)
(* the type-directed value parser, the CREATE TABLE and INSERT statement   *)
(* parsers and the diagnostics formatter.                                  *)
(*                                                                         *)
(* Source text is a sequence of one-character strings; a cursor is the     *)
(* 0-based byte offset of the remaining input (all inputs are ASCII, so a  *)
(* character is a byte).  A parser is an operator from (src, i) to a       *)
(* result record: Ok(rest, out), Error(tree) (nom::Err::Error, which a     *)
(* combinator may recover from) or Failure(tree) (nom::Err::Failure).      *)
(***************************************************************************)
EXTENDS Integers, Sequences, FiniteSets, TLC

VARIABLES
    pc,         \* "start" before the entry point ran, "done" after it returned
    input,      \* the source text handed to the entry point
    shape,      \* how `input` was put together (names, literals, whitespace)
    tp,         \* the SqlType handed to Value::parse_with_type
    tree,       \* the ErrorTree handed to format_parse_error
    output      \* what the entry point returned

vars == <<pc, input, shape, tp, tree, output>>

None == [none |-> TRUE]

(***************************************************************************)
(* Characters                                                              *)
(***************************************************************************)
LowerCase == <<"a", "b", "c", "d", "e", "f", "g", "h", "i", "j", "k", "l", "m",
               "n", "o", "p", "q", "r", "s", "t", "u", "v", "w", "x", "y", "z">>
UpperCase == <<"A", "B", "C", "D", "E", "F", "G", "H", "I", "J", "K", "L", "M",
               "N", "O", "P", "Q", "R", "S", "T", "U", "V", "W", "X", "Y", "Z">>
DigitChars == <<"0", "1", "2", "3", "4", "5", "6", "7", "8", "9">>

Range(s) == {s[k] : k \in 1..Len(s)}

\* char::is_ascii_digit
is_ascii_digit(c) == c \in Range(DigitChars)

\* char::is_ascii_alphanumeric
is_ascii_alphanumeric(c) ==
    c \in Range(LowerCase) \cup Range(UpperCase) \cup Range(DigitChars)

\* char::is_whitespace restricted to ASCII, as nom's multispace uses it
MultiSpace == {" ", "\t", "\r", "\n"}

\* A comparison that tells the letter cases apart.
keep_case(c) == c

\* char::to_lowercase on ASCII, the comparison tag_no_case makes
to_lowercase(c) ==
    IF c \in Range(UpperCase)
    THEN LowerCase[CHOOSE k \in 1..Len(UpperCase) : UpperCase[k] = c]
    ELSE c

\* char::to_digit(10) of an ASCII digit
to_digit(c) == (CHOOSE k \in 1..Len(DigitChars) : DigitChars[k] = c) - 1

\* The rest of the input at cursor i, and the slice between two cursors.
Slice(src, i, j) == SubSeq(src, i + 1, j)
Rest(src, i) == SubSeq(src, i + 1, Len(src))

(***************************************************************************)
(* Spans (nom_locate::LocatedSpan): offset, line and fragment.             *)
(***************************************************************************)
\* The line of offset i: 1 plus the newlines before it (nom_locate counts
\* the newlines of the consumed text whenever a span is narrowed).
location_line(src, i) == 1 + Cardinality({k \in 1..i : src[k] = "\n"})

\* The span of src between cursors i and j.
Span(src, i, j) ==
    [offset |-> i, line |-> location_line(src, i), fragment |-> Slice(src, i, j)]

\* LocatedSpan::new / From<&str>: a fresh span over a fragment.
RawSpan_new(fragment) == [offset |-> 0, line |-> 1, fragment |-> fragment]

(***************************************************************************)
(* Parse results and error trees (nom_supreme::error::ErrorTree)           *)
(***************************************************************************)
Ok(rest, out) == [ok |-> TRUE, rest |-> rest, out |-> out]
Error(e) == [ok |-> FALSE, fatal |-> FALSE, err |-> e]
Failure(e) == [ok |-> FALSE, fatal |-> TRUE, err |-> e]

Base(location, kind) == [t |-> "Base", location |-> location, kind |-> kind]

ExpectedChar(c) == [k |-> "Expected", what |-> "Char", arg |-> <<c>>]
ExpectedTag(tag) == [k |-> "Expected", what |-> "Tag", arg |-> tag]
Kind(name) == [k |-> "Kind", what |-> name, arg |-> <<>>]
External(name) == [k |-> "External", what |-> name, arg |-> <<>>]

\* errors.rs custom_error: a recoverable Base error at a location.
custom_error(location, kind) == Error(Base(location, kind))

\* ErrorTree::add_context: push onto an existing stack, else start one.
add_context(location, ctx, e) ==
    IF e.t = "Stack"
    THEN [e EXCEPT !.contexts = Append(@, <<location, ctx>>)]
    ELSE [t |-> "Stack", base |-> e, contexts |-> << <<location, ctx>> >>]

\* nom::error::context(ctx, p) applied to p's result r, p having run at i.
context(ctx, i, r) ==
    IF r.ok THEN r ELSE [r EXCEPT !.err = add_context(i, ctx, r.err)]

\* Sequencing, as `?` and the sequence combinators (tuple, preceded,
\* delimited, ...) do it: the next parser runs on the result r of the one
\* before it when that is Ok, otherwise r's error is the result.
and_then(r, next(_)) == IF r.ok THEN next(r) ELSE r

\* A value computed once and used by what follows (let v = ...).
bind(v, next(_)) == next(v)

\* nom::combinator::cut: a recoverable error becomes a failure.
cut(r) == IF r.ok THEN r ELSE [r EXCEPT !.fatal = TRUE]

(***************************************************************************)
(* Primitive parsers                                                       *)
(***************************************************************************)
\* The cursor after the longest run of characters of S starting at i, at
\* most max characters long.
RunEnd(src, i, S, max) ==
    LET limit == IF i + max < Len(src) THEN i + max ELSE Len(src)
        ends == {j \in i..limit : \A k \in (i + 1)..j : src[k] \in S}
    IN  IF ends = {} THEN i ELSE CHOOSE j \in ends : \A m \in ends : m <= j

multispace0(src, i) == Ok(RunEnd(src, i, MultiSpace, Len(src)), None)

multispace1(src, i) ==
    LET j == RunEnd(src, i, MultiSpace, Len(src))
    IN  IF j > i THEN Ok(j, None) ELSE Error(Base(i, Kind("MultiSpace")))

char(c, src, i) ==
    IF i < Len(src) /\ src[i + 1] = c
    THEN Ok(i + 1, c)
    ELSE Error(Base(i, ExpectedChar(c)))

tag_no_case(tag, src, i) ==
    IF /\ i + Len(tag) <= Len(src)
       /\ \A k \in 1..Len(tag) : to_lowercase(src[i + k]) = to_lowercase(tag[k])
    THEN Ok(i + Len(tag), Span(src, i, i + Len(tag)))
    ELSE Error(Base(i, ExpectedTag(tag)))

IdentifierMax == 128

IdentifierChars ==
    Range(LowerCase) \cup Range(UpperCase) \cup Range(DigitChars) \cup {"_"}

\* A scanner that takes the whole run, however long.
identifier_unbounded(src, i) ==
    Ok(RunEnd(src, i, IdentifierChars, Len(src)),
       Span(src, i, RunEnd(src, i, IdentifierChars, Len(src))))

\* parsers/identifier.rs: take_while_m_n(0, 128, alphanumeric or '_').
identifier(src, i) ==
    LET j == RunEnd(src, i, IdentifierChars, IdentifierMax)
    IN  Ok(j, Span(src, i, j))

\* parsers/mod.rs truncate_raw_span: the part of `first` before `second`.
truncate_raw_span(src, first, second) == Span(src, first, second)

\* parsers/mod.rs parse_with_span: pair f's output with the span it consumed.
parse_with_span(src, i, r) ==
    IF r.ok THEN Ok(r.rest, <<truncate_raw_span(src, i, r.rest), r.out>>) ELSE r

(***************************************************************************)
(* Numbers.  The integer types reach 128 bits, so a number is kept as its  *)
(* decimal digits (most significant first, no leading zero) and a sign.    *)
(***************************************************************************)
\* Drop leading zeros, keeping one digit.
RECURSIVE Canon(_)
Canon(d) ==
    IF Len(d) > 1 /\ d[1] = "0" THEN Canon(Tail(d)) ELSE d

\* a > b for canonical digit sequences.
GtNat(a, b) ==
    \/ Len(a) > Len(b)
    \/ /\ Len(a) = Len(b)
       /\ \E k \in 1..Len(a) :
            /\ to_digit(a[k]) > to_digit(b[k])
            /\ \A m \in 1..(k - 1) : a[m] = b[m]

\* The integer types of impl_parse_number!: width and signedness.
IntType(bits, signed) == [bits |-> bits, signed |-> signed]
usize == IntType(64, FALSE)

\* <$ty>::MAX of each integer type, in decimal.
I8_MAX ==
    <<"1", "2", "7">>
U8_MAX ==
    <<"2", "5", "5">>
I16_MAX ==
    <<"3", "2", "7", "6", "7">>
U16_MAX ==
    <<"6", "5", "5", "3", "5">>
I32_MAX ==
    <<"2", "1", "4", "7", "4", "8", "3", "6", "4", "7">>
U32_MAX ==
    <<"4", "2", "9", "4", "9", "6", "7", "2", "9", "5">>
I64_MAX ==
    <<"9", "2", "2", "3", "3", "7", "2", "0", "3", "6", "8", "5", "4",
    "7", "7", "5", "8", "0", "7">>
U64_MAX ==
    <<"1", "8", "4", "4", "6", "7", "4", "4", "0", "7", "3", "7", "0",
    "9", "5", "5", "1", "6", "1", "5">>
I128_MAX ==
    <<"1", "7", "0", "1", "4", "1", "1", "8", "3", "4", "6", "0", "4",
    "6", "9", "2", "3", "1", "7", "3", "1", "6", "8", "7", "3", "0", "3",
    "7", "1", "5", "8", "8", "4", "1", "0", "5", "7", "2", "7">>
U128_MAX ==
    <<"3", "4", "0", "2", "8", "2", "3", "6", "6", "9", "2", "0", "9",
    "3", "8", "4", "6", "3", "4", "6", "3", "3", "7", "4", "6", "0", "7",
    "4", "3", "1", "7", "6", "8", "2", "1", "1", "4", "5", "5">>

\* A conversion that takes every type's limit to be the unsigned one.
MaxOf_ignoring_sign(ty) ==
    CASE ty.bits = 8 -> U8_MAX
      [] ty.bits = 16 -> U16_MAX
      [] ty.bits = 32 -> U32_MAX
      [] ty.bits = 64 -> U64_MAX
      [] ty.bits = 128 -> U128_MAX

MaxOf(ty) ==
    CASE ty.bits = 8 -> IF ty.signed THEN I8_MAX ELSE U8_MAX
      [] ty.bits = 16 -> IF ty.signed THEN I16_MAX ELSE U16_MAX
      [] ty.bits = 32 -> IF ty.signed THEN I32_MAX ELSE U32_MAX
      [] ty.bits = 64 -> IF ty.signed THEN I64_MAX ELSE U64_MAX
      [] ty.bits = 128 -> IF ty.signed THEN I128_MAX ELSE U128_MAX

\* The number after d, for a d whose last digit is below 9.
Bump(d) == [d EXCEPT ![Len(d)] = DigitChars[to_digit(d[Len(d)]) + 2]]

\* The magnitude of <$ty>::MIN: MAX + 1 for a signed type (two's
\* complement), 0 for an unsigned one.
MinMagnitudeOf(ty) == IF ty.signed THEN Bump(MaxOf(ty)) ELSE <<"0">>

ParseIntError(kind) == [ok |-> FALSE, kind |-> kind]

\* The digit loop of <$ty>::from_str: result = result * 10 +/- digit with
\* checked arithmetic, which overflows exactly when the digits read so far
\* exceed the limit of the sign.
RECURSIVE Accumulate(_, _, _, _, _)
Accumulate(digits, k, acc, limit, is_positive) ==
    IF k > Len(digits)
    THEN [ok |-> TRUE, neg |-> ~is_positive /\ acc # <<"0">>, digits |-> acc]
    ELSE IF ~is_ascii_digit(digits[k])
    THEN ParseIntError("InvalidDigit")
    ELSE LET next == Canon(Append(acc, digits[k]))
         IN  IF GtNat(next, limit)
             THEN ParseIntError(IF is_positive THEN "PosOverflow" ELSE "NegOverflow")
             ELSE Accumulate(digits, k + 1, next, limit, is_positive)

\* <$ty>::from_str (str::parse): an optional sign, '-' only for a signed
\* type, then the digit loop.
from_str(ty, s) ==
    IF s = <<>>
    THEN ParseIntError("Empty")
    ELSE IF s[1] \in {"+", "-"} /\ Len(s) = 1
    THEN ParseIntError("InvalidDigit")
    ELSE LET minus == s[1] = "-" /\ ty.signed
             digits == IF s[1] = "+" \/ minus THEN Tail(s) ELSE s
         IN  Accumulate(digits, 1, <<"0">>,
                        IF minus THEN MinMagnitudeOf(ty) ELSE MaxOf(ty), ~minus)

\* The value of a short run of digits as a TLA+ number.
RECURSIVE DigitsToNat(_)
DigitsToNat(d) ==
    IF d = <<>> THEN 0
    ELSE 10 * DigitsToNat(SubSeq(d, 1, Len(d) - 1)) + to_digit(d[Len(d)])

\* parsers/number.rs parse_int: take_while1(digit or '-').
parse_int(src, i) ==
    LET j == RunEnd(src, i, Range(DigitChars) \cup {"-"}, Len(src))
    IN  IF j > i THEN Ok(j, Slice(src, i, j)) ELSE Error(Base(i, Kind("TakeWhile1")))

\* parsers/number.rs impl_parse_number!: map_res(parse_int, |s| s.parse()).
parse_number(ty, src, i) ==
    and_then(parse_int(src, i), LAMBDA r :
        bind(from_str(ty, r.out), LAMBDA n :
            IF n.ok
            THEN Ok(r.rest, [neg |-> n.neg, digits |-> n.digits])
            ELSE Error(Base(i, External(n.kind)))))

(***************************************************************************)
(* Column types and values (ast/commands/create.rs SqlType, value.rs)      *)
(***************************************************************************)
VarChar(size) == [variant |-> "VarChar", size |-> size]
IntVariants == {"I8", "I16", "I32", "I64", "I128", "U8", "U16", "U32", "U64", "U128"}
IntegerType(variant) == [variant |-> variant]

\* The Rust integer type behind each integer variant.
IntTypeOf(variant) ==
    CASE variant = "I8" -> IntType(8, TRUE)
      [] variant = "I16" -> IntType(16, TRUE)
      [] variant = "I32" -> IntType(32, TRUE)
      [] variant = "I64" -> IntType(64, TRUE)
      [] variant = "I128" -> IntType(128, TRUE)
      [] variant = "U8" -> IntType(8, FALSE)
      [] variant = "U16" -> IntType(16, FALSE)
      [] variant = "U32" -> IntType(32, FALSE)
      [] variant = "U64" -> IntType(64, FALSE)
      [] variant = "U128" -> IntType(128, FALSE)

\* nom::bytes::complete::escaped(none_of("\\'"), '\\', one_of("'\\")), the
\* loop at cursor i of a scan that began at cursor start.  It returns the
\* raw text it walked over: nothing is unescaped.
RECURSIVE escaped(_, _, _)
escaped(src, start, i) ==
    IF i >= Len(src)
    THEN Ok(Len(src), Span(src, start, Len(src)))
    ELSE IF src[i + 1] \notin {"\\", "'"}
    THEN escaped(src, start, i + 1)
    ELSE IF src[i + 1] = "\\"
    THEN IF i + 1 >= Len(src)
         THEN Error(Base(start, Kind("Escaped")))
         ELSE IF src[i + 2] \in {"'", "\\"}
         THEN escaped(src, start, i + 2)
         ELSE Error(Base(i + 1, Kind("OneOf")))
    ELSE IF i = start
    THEN Error(Base(start, Kind("Escaped")))
    ELSE Ok(i, Span(src, start, i))

\* The length test of Value::parse_inner's map_res closure: s.len() > size,
\* s being the span `escaped` returned.
too_long(s, size) == Len(s.fragment) > size

\* Value::parse_inner, the VarChar arm: an opening quote, then under cut
\* the escaped text, the closing quote and the length test.
parse_varchar(size, src, i) ==
    and_then(char("'", src, i), LAMBDA open :
        cut(and_then(escaped(src, open.rest, open.rest), LAMBDA body :
            and_then(char("'", src, body.rest), LAMBDA close :
                IF too_long(body.out, size)
                THEN Error(Base(open.rest, External("Value too long")))
                ELSE Ok(close.rest, [variant |-> "VarChar", s |-> body.out.fragment])))))

\* Value::parse_inner: the literal grammar the expected type selects.
parse_inner(type, src, i) ==
    IF type.variant = "VarChar"
    THEN parse_varchar(type.size, src, i)
    ELSE and_then(parse_number(IntTypeOf(type.variant), src, i), LAMBDA r :
            Ok(r.rest, [variant |-> type.variant,
                        neg |-> r.out.neg, digits |-> r.out.digits]))

\* Value::parse_with_type: context("Value", parse_with_span(parse_inner)).
parse_with_type(type, src, i) ==
    context("Value", i, parse_with_span(src, i, parse_inner(type, src, i)))

\* Value::len
Value_len(v) ==
    CASE v.variant = "VarChar" -> Len(v.s)
      [] v.variant \in {"I8", "U8"} -> 1
      [] v.variant \in {"I16", "U16"} -> 2
      [] v.variant \in {"I32", "U32"} -> 4
      [] v.variant \in {"I64", "U64"} -> 8
      [] v.variant \in {"I128", "U128"} -> 16

(***************************************************************************)
(* Diagnostics (errors.rs)                                                 *)
(***************************************************************************)
\* A fold that keeps the earlier element unless the later one is strictly
\* greater.
RECURSIVE max_by_key_keeping_first(_, _, _)
max_by_key_keeping_first(es, k, best) ==
    IF k > Len(es) THEN best
    ELSE max_by_key_keeping_first(es, k + 1,
            IF Len(es[k].others) > Len(best.others) THEN es[k] ELSE best)

\* Iterator::max_by_key over a non-empty sequence of formatted errors, the
\* key being others.len(): the fold keeps the later element unless the
\* earlier one is strictly greater.
RECURSIVE max_by_key(_, _, _)
max_by_key(es, k, best) ==
    IF k > Len(es) THEN best
    ELSE max_by_key(es, k + 1,
                    IF Len(best.others) > Len(es[k].others) THEN best ELSE es[k])

\* errors.rs format_parse_error: the FormattedError of an error tree.
RECURSIVE format_parse_error(_)
format_parse_error(e) ==
    CASE e.t = "Base" ->
            [span |-> e.location, kind |-> e.kind, others |-> <<>>]
      [] e.t = "Stack" ->
            LET base == format_parse_error(e.base)
            IN  [base EXCEPT !.others = @ \o e.contexts]
      [] e.t = "Alt" ->
            LET formatted == [k \in 1..Len(e.alts) |-> format_parse_error(e.alts[k])]
            IN  max_by_key(formatted, 2, formatted[1])

\* nom::combinator::all_consuming applied to a parser's result.
all_consuming(src, r) ==
    IF r.ok /\ r.rest < Len(src) THEN Error(Base(r.rest, Kind("Eof"))) ELSE r

\* parse.rs parse_format_error applied to the result r of running f on the
\* whole input: Ok(result), or Err(the formatted error).
parse_format_error(src, r) ==
    LET all == all_consuming(src, r)
    IN  IF all.ok
        THEN [ok |-> TRUE, result |-> all.out]
        ELSE [ok |-> FALSE, error |-> format_parse_error(all.err)]

(***************************************************************************)
(* The type grammar and a column definition (ast/commands/create.rs)       *)
(***************************************************************************)
varchar == <<"v", "a", "r", "c", "h", "a", "r">>
int8 == <<"i", "n", "t", "8">>
int16 == <<"i", "n", "t", "1", "6">>
int32 == <<"i", "n", "t", "3", "2">>
int64 == <<"i", "n", "t", "6", "4">>
int128 == <<"i", "n", "t", "1", "2", "8">>
uint8 == <<"u", "i", "n", "t", "8">>
uint16 == <<"u", "i", "n", "t", "1", "6">>
uint32 == <<"u", "i", "n", "t", "3", "2">>
uint64 == <<"u", "i", "n", "t", "6", "4">>
uint128 == <<"u", "i", "n", "t", "1", "2", "8">>

\* The keyword alternatives of SqlType::parse after varchar, in order.
IntKeywords ==
    << <<int8, "I8">>, <<int16, "I16">>, <<int32, "I32">>, <<int64, "I64">>,
       <<int128, "I128">>, <<uint8, "U8">>, <<uint16, "U16">>, <<uint32, "U32">>,
       <<uint64, "U64">>, <<uint128, "U128">> >>

\* The first alternative: varchar(N), N parsed as a usize.
varchar_type(src, i) ==
    and_then(tag_no_case(varchar, src, i), LAMBDA a :
    and_then(char("(", src, a.rest), LAMBDA b :
    and_then(parse_number(usize, src, b.rest), LAMBDA n :
    and_then(char(")", src, n.rest), LAMBDA c :
        Ok(c.rest, VarChar(DigitsToNat(n.out.digits)))))))

keyword_type(k, src, i) ==
    and_then(tag_no_case(IntKeywords[k][1], src, i), LAMBDA r :
        Ok(r.rest, IntegerType(IntKeywords[k][2])))

\* nom::branch::alt over the results of the alternatives, in order: the
\* first alternative that does not fail recoverably decides; when all
\* fail, their errors are gathered in one Alt (ErrorTree::or).
alt(rs) ==
    LET decided == {k \in 1..Len(rs) : rs[k].ok \/ rs[k].fatal}
        first == CHOOSE k \in decided : \A m \in decided : k <= m
    IN  IF decided # {} THEN rs[first]
        ELSE Error([t |-> "Alt", alts |-> [k \in 1..Len(rs) |-> rs[k].err]])

\* SqlType::parse
SqlType_parse(src, i) ==
    context("Column Type", i,
        alt(<<varchar_type(src, i)>>
                \o [k \in 1..Len(IntKeywords) |-> keyword_type(k, src, i)]))

\* RawColumn::parse: identifier, one space, type with its span.
RawColumn_parse(src, i) ==
    context("Column", i,
        and_then(context("Column Name", i, identifier(src, i)), LAMBDA n :
        and_then(char(" ", src, n.rest), LAMBDA sp :
        and_then(parse_with_span(src, sp.rest, SqlType_parse(src, sp.rest)), LAMBDA ty :
            Ok(ty.rest, [name |-> n.out, tp |-> ty.out])))))

(***************************************************************************)
(* Lists (parsers/mod.rs comma_sep) and the row parser (parsers/row.rs)    *)
(***************************************************************************)
\* A catalog column (create.rs Column).
Column(name, type) == [name |-> name, tp |-> type]

\* RowParser::parse on the stack `columns`: pop the last entry and parse a
\* value of its column's type; with nothing left, expected ')'.  The result
\* comes with the stack as the call leaves it.
RowParser_parse(columns, src, i) ==
    IF columns = <<>>
    THEN [res |-> custom_error(i, ExpectedChar(")")), st |-> columns]
    ELSE [res |-> and_then(parse_with_type(columns[Len(columns)][2].tp, src, i),
                      LAMBDA r : Ok(r.rest, <<columns[Len(columns)][1], r.out>>)),
          st |-> SubSeq(columns, 1, Len(columns) - 1)]

\* A pop from the wrong end of the stack.
RowParser_pop_front(columns) ==
    IF columns = <<>> THEN None ELSE columns[1]

\* RowParser::pop
RowParser_pop(columns) ==
    IF columns = <<>> THEN None ELSE columns[Len(columns)]

\* The element parser a list is built over: the identifier scanner, the
\* column definition parser, or the row parser with its stack st.
Element(f, st, src, i) ==
    CASE f = "identifier" -> [res |-> identifier(src, i), st |-> st]
      [] f = "column" -> [res |-> RawColumn_parse(src, i), st |-> st]
      [] f = "row" -> RowParser_parse(st, src, i)

\* The separator of comma_sep: delimited(multispace0, char(','), multispace0).
separator(src, i) ==
    and_then(char(",", src, multispace0(src, i).rest), LAMBDA b :
        multispace0(src, b.rest))

\* nom::multi::separated_list1 after its first element: while a separator
\* and an element follow, take them; a recoverable error of either ends
\* the list before the separator, a failure is returned.  (The separator
\* always consumes its comma, so nom's no-progress check never fires.)
RECURSIVE separated_list1_more(_, _, _, _, _)
separated_list1_more(f, st, src, i, acc) ==
    bind(separator(src, i), LAMBDA s :
        IF ~s.ok THEN [res |-> Ok(i, acc), st |-> st]
        ELSE bind(Element(f, st, src, s.rest), LAMBDA e :
            IF e.res.ok
            THEN separated_list1_more(f, e.st, src, e.res.rest, Append(acc, e.res.out))
            ELSE IF e.res.fatal THEN e
            ELSE [res |-> Ok(i, acc), st |-> e.st]))

separated_list1(f, st, src, i) ==
    bind(Element(f, st, src, i), LAMBDA e :
        IF e.res.ok
        THEN separated_list1_more(f, e.st, src, e.res.rest, <<e.res.out>>)
        ELSE e)

\* parsers/mod.rs comma_sep: delimited(multispace0, separated_list1(..), multispace0).
comma_sep(f, st, src, i) ==
    bind(separated_list1(f, st, src, multispace0(src, i).rest), LAMBDA l :
        IF l.res.ok
        THEN [res |-> Ok(multispace0(src, l.res.rest).rest, l.res.out), st |-> l.st]
        ELSE l)

(***************************************************************************)
(* CREATE TABLE (ast/commands/create.rs)                                   *)
(***************************************************************************)
create == <<"c", "r", "e", "a", "t", "e">>
table == <<"t", "a", "b", "l", "e">>

\* column_definitions: "(" comma_sep(RawColumn::parse) ")".
column_definitions(src, i) ==
    context("Column Definitions", i,
        and_then(char("(", src, i), LAMBDA a :
        and_then(comma_sep("column", <<>>, src, a.rest).res, LAMBDA l :
        and_then(char(")", src, l.rest), LAMBDA c :
            Ok(c.rest, l.out)))))

\* Statement::parse of a CREATE TABLE statement.  The table name is kept
\* as a span made anew from its text.
create_Statement_parse(src, i) ==
    context("Create Table", i,
        and_then(multispace0(src, i), LAMBDA a :
        and_then(tag_no_case(create, src, a.rest), LAMBDA b :
        and_then(multispace1(src, b.rest), LAMBDA c :
        and_then(tag_no_case(table, src, c.rest), LAMBDA d :
        and_then(multispace1(src, d.rest), LAMBDA e :
        and_then(context("Table Name", e.rest, identifier(src, e.rest)), LAMBDA n :
        and_then(multispace1(src, n.rest), LAMBDA f :
        and_then(column_definitions(src, f.rest), LAMBDA cols :
            Ok(cols.rest, [table_name |-> RawSpan_new(n.out.fragment),
                           columns |-> cols.out]))))))))))

(***************************************************************************)
(* INSERT (ast/commands/insert.rs)                                         *)
(***************************************************************************)
insert == <<"i", "n", "s", "e", "r", "t">>
into == <<"i", "n", "t", "o">>
values == <<"v", "a", "l", "u", "e", "s">>

\* parse_values, first part: " (name, ...) values ".
value_names(src, i) ==
    context("Column Definitions", i,
        and_then(multispace1(src, i), LAMBDA a :
        and_then(char("(", src, a.rest), LAMBDA b :
        and_then(multispace0(src, b.rest), LAMBDA c :
        and_then(context("Column Names", c.rest,
                         comma_sep("identifier", <<>>, src, c.rest).res), LAMBDA d :
        and_then(multispace0(src, d.rest), LAMBDA e :
        and_then(char(")", src, e.rest), LAMBDA f :
        and_then(multispace1(src, f.rest), LAMBDA g :
        and_then(tag_no_case(values, src, g.rest), LAMBDA h :
        and_then(multispace1(src, h.rest), LAMBDA k :
            Ok(k.rest, d.out)))))))))))

\* The entry put behind the ones found before it: columns_found.push(entry).
insert_back(found, entry) == Append(found, entry)

\* columns_found.insert(0, entry)
insert_front(found, entry) == <<entry>> \o found

\* The loop over the names with an unknown name skipped, not reported.
RECURSIVE columns_found_skipping(_, _, _, _)
columns_found_skipping(columns, names, k, found) ==
    IF k > Len(names) THEN [ok |-> TRUE, found |-> found]
    ELSE IF names[k].fragment \in DOMAIN columns
    THEN columns_found_skipping(columns, names, k + 1,
                                <<<<names[k], columns[names[k].fragment]>>>> \o found)
    ELSE columns_found_skipping(columns, names, k + 1, found)

\* parse_values, the loop over the names: each must be a key of the column
\* map, and is put in front of the ones found before it.
RECURSIVE columns_found(_, _, _, _)
columns_found(columns, names, k, found) ==
    IF k > Len(names) THEN [ok |-> TRUE, found |-> found]
    ELSE IF names[k].fragment \in DOMAIN columns
    THEN columns_found(columns, names, k + 1,
                       insert_front(found, <<names[k], columns[names[k].fragment]>>))
    ELSE custom_error(names[k].offset, External("ColumnNotFound"))

\* parse_values, last part: "(value, ...)" parsed by a row parser over the
\* columns found, then the check that the row parser has nothing left.
column_values(found, src, i) ==
    bind(char("(", src, i), LAMBDA a :
        IF ~a.ok THEN context("Column Values", i, a)
        ELSE bind(multispace0(src, a.rest), LAMBDA b :
             bind(comma_sep("row", found, src, b.rest), LAMBDA l :
                and_then(context("Column Values", i,
                            and_then(context("Column Names", b.rest, l.res), LAMBDA c :
                            and_then(char(")", src, multispace0(src, c.rest).rest), LAMBDA e :
                                Ok(multispace0(src, e.rest).rest, c.out)))),
                    LAMBDA parsed :
                        IF RowParser_pop(l.st) = None THEN parsed
                        ELSE custom_error(RowParser_pop(l.st)[1].offset,
                                          External("ColumnNotUsed"))))))

parse_values(columns, src, i) ==
    and_then(value_names(src, i), LAMBDA names :
    and_then(columns_found(columns, names.out, 1, <<>>), LAMBDA found :
        column_values(found.found, src, names.rest)))

\* Statement::parse_with_table_map
parse_with_table_map(table_map, src, i) ==
    and_then(context("Insert Statement", i,
                and_then(tag_no_case(insert, src, i), LAMBDA a :
                and_then(multispace1(src, a.rest), LAMBDA b :
                and_then(tag_no_case(into, src, b.rest), LAMBDA c :
                and_then(multispace1(src, c.rest), LAMBDA d :
                and_then(context("Table Name", d.rest, identifier(src, d.rest)), LAMBDA n :
                    IF n.out.fragment \in DOMAIN table_map THEN n
                    ELSE Error(Base(d.rest, Kind("MapOpt"))))))))),
        LAMBDA head :
            and_then(context("Insert Statement", head.rest,
                        parse_values(table_map[head.out.fragment], src, head.rest)),
                LAMBDA v : Ok(v.rest, [table_name |-> head.out, values |-> v.out])))

(***************************************************************************)
(* Value::parse_with_type on a literal                                     *)
(***************************************************************************)
\* Bounds of the inputs.
MaxText == 3        \* characters between the quotes of a generated text literal
MaxSize == 5        \* largest varchar size tried
MaxZeros == 1       \* leading zeros put before a numeral

SeqsUpTo(S, n) == UNION {[1..k -> S] : k \in 0..n}

RECURSIVE Zeros(_)
Zeros(n) == IF n = 0 THEN <<>> ELSE <<"0">> \o Zeros(n - 1)

SqlTypes == {VarChar(n) : n \in 0..MaxSize} \cup {IntegerType(v) : v \in IntVariants}

\* Text between quotes: ordinary characters, backslashes and quotes in any
\* arrangement, and the two literals of the tests.
TextAlphabet == {"a", "\\", "'"}
hello == <<"h", "e", "l", "l", "o">>
digits9 == <<"1", "2", "3", "4", "5", "6", "7", "8", "9">>
TextShapes ==
    {[kind |-> "text", content |-> c] : c \in SeqsUpTo(TextAlphabet, MaxText) \cup {hello, digits9}}

\* Digit runs: small numbers and the numbers next to every limit.
DigitRuns ==
    {<<>>, <<"0">>, <<"1", "9">>, <<"9", "9", "9">>}
        \cup {MaxOf(IntTypeOf(v)) : v \in IntVariants}
        \cup {Bump(MaxOf(IntTypeOf(v))) : v \in IntVariants}
        \cup {Bump(Bump(MaxOf(IntTypeOf(v)))) : v \in IntVariants}
NumeralShapes ==
    {[kind |-> "numeral", sign |-> sg, digits |-> Zeros(z) \o d] :
        sg \in {<<>>, <<"-">>}, z \in 0..MaxZeros, d \in DigitRuns}
        \ {[kind |-> "numeral", sign |-> <<>>, digits |-> <<>>]}

\* Runs of digits and '-' that are no numeral.
OddShapes ==
    {[kind |-> "odd", content |-> c] :
        c \in {<<"1", "-", "2">>, <<"-", "-", "5">>, <<"5", "-">>}}

ValueShapes == TextShapes \cup NumeralShapes \cup OddShapes

RenderValue(sh) ==
    CASE sh.kind = "text" -> <<"'">> \o sh.content \o <<"'">>
      [] sh.kind = "numeral" -> sh.sign \o sh.digits
      [] sh.kind = "odd" -> sh.content

InitValue ==
    /\ pc = "start"
    /\ shape \in ValueShapes
    /\ input = RenderValue(shape)
    /\ tp \in SqlTypes
    /\ tree = None
    /\ output = None

ParseValue ==
    /\ pc = "start"
    /\ pc' = "done"
    /\ output' = parse_with_type(tp, input, 0)
    /\ UNCHANGED <<input, shape, tp, tree>>

NextValue == ParseValue

SpecValue == InitValue /\ [][NextValue]_vars

\* The base cause of a failed parse, as the formatter reports it.
Cause(r) == format_parse_error(r.err)

(***************************************************************************)
(* Claims about Value::parse_with_type                                     *)
(***************************************************************************)
\* The number of characters a text denotes once \' and \\ are read as one
\* character each; -1 for a text that is not well formed (a quote that is
\* not escaped, a backslash before anything else).
RECURSIVE DecodedLen(_)
DecodedLen(c) ==
    IF c = <<>> THEN 0
    ELSE IF c[1] = "'" THEN -1
    ELSE IF c[1] = "\\"
    THEN IF Len(c) >= 2 /\ c[2] \in {"'", "\\"}
         THEN LET n == DecodedLen(SubSeq(c, 3, Len(c)))
              IN  IF n < 0 THEN -1 ELSE n + 1
         ELSE -1
    ELSE LET n == DecodedLen(Tail(c))
         IN  IF n < 0 THEN -1 ELSE n + 1

IsTextCase ==
    /\ pc = "done"
    /\ tp.variant = "VarChar"
    /\ shape.kind = "text"
    /\ DecodedLen(shape.content) >= 0

RejectedAsTooLong ==
    /\ ~output.ok
    /\ Cause(output).kind = External("Value too long")

\* C7: a quote-balanced text literal parsed against Text(maxLength) is
\* rejected with the value-too-long error exactly when its decoded length
\* (\' and \\ counting as one character each) exceeds maxLength;
\* '123456789' against varchar(5) fails and 'hello' against varchar(5)
\* succeeds with length 5.
C7_TextRejectedIffDecodedTooLong ==
    IsTextCase =>
        /\ RejectedAsTooLong <=> DecodedLen(shape.content) > tp.size
        /\ shape.content = digits9 /\ tp.size = 5 => ~output.ok
        /\ shape.content = hello /\ tp.size = 5 =>
              output.ok /\ Value_len(output.out[2]) = 5

\* The number a numeral denotes, and whether a type holds it.
NumeralMagnitude == Canon(shape.digits)
NumeralNegative == shape.sign = <<"-">> /\ NumeralMagnitude # <<"0">>
SignedVariants == {"I8", "I16", "I32", "I64", "I128"}
\* The largest number of each column type.
LargestOf(variant) ==
    CASE variant = "I8" -> I8_MAX
      [] variant = "I16" -> I16_MAX
      [] variant = "I32" -> I32_MAX
      [] variant = "I64" -> I64_MAX
      [] variant = "I128" -> I128_MAX
      [] variant = "U8" -> U8_MAX
      [] variant = "U16" -> U16_MAX
      [] variant = "U32" -> U32_MAX
      [] variant = "U64" -> U64_MAX
      [] variant = "U128" -> U128_MAX
\* The numeral's number lies between the smallest and the largest number
\* of the column type.
NumeralInRange(variant) ==
    IF NumeralNegative
    THEN variant \in SignedVariants
            /\ ~GtNat(NumeralMagnitude, Bump(LargestOf(variant)))
    ELSE ~GtNat(NumeralMagnitude, LargestOf(variant))

IsNumeralCase ==
    /\ pc = "done"
    /\ tp.variant \in IntVariants
    /\ shape.kind = "numeral"

NumericConversionError ==
    /\ ~output.ok
    /\ Cause(output).kind.k = "External"
    /\ Cause(output).kind.what \in {"InvalidDigit", "PosOverflow", "NegOverflow"}
    /\ Cause(output).span = 0

YieldsTheNumber ==
    /\ output.ok
    /\ output.rest = Len(input)
    /\ output.out[2] = [variant |-> tp.variant, neg |-> NumeralNegative,
                        digits |-> NumeralMagnitude]

\* C8 as stated: for each integer type, a literal of an optional '-' and a
\* digit run parses to exactly its number if and only if the number lies in
\* the type's range, and fails with a numeric-conversion error otherwise
\* (overflow, a bare '-', a negative numeral for an unsigned type).
C8_IntegerParsesIffInRange ==
    IsNumeralCase =>
        IF shape.digits # <<>> /\ NumeralInRange(tp.variant)
        THEN YieldsTheNumber
        ELSE NumericConversionError

\* C8 amended: the same, except that an unsigned type rejects every literal
\* that carries a '-' sign, "-0" included, also with a numeric-conversion
\* error; for int8, "19" gives 19, "-19" gives -19 and "999" fails.
C8_IntegerParsesIffInRangeAndSignAllowed ==
    /\ IsNumeralCase =>
          IF /\ shape.digits # <<>>
             /\ NumeralInRange(tp.variant)
             /\ (shape.sign = <<"-">> => tp.variant \in SignedVariants)
          THEN YieldsTheNumber
          ELSE NumericConversionError
    /\ IsNumeralCase /\ tp.variant = "I8" /\ input = <<"1", "9">> =>
          output.ok /\ ~output.out[2].neg /\ DigitsToNat(output.out[2].digits) = 19
    /\ IsNumeralCase /\ tp.variant = "I8" /\ input = <<"-", "1", "9">> =>
          output.ok /\ output.out[2].neg /\ DigitsToNat(output.out[2].digits) = 19
    /\ IsNumeralCase /\ tp.variant = "I8" /\ input = <<"9", "9", "9">> =>
          NumericConversionError

\* An int8 column took its most negative number, written with a leading zero.
C8_Witness ==
    /\ IsNumeralCase
    /\ tp.variant = "I8"
    /\ input = <<"-", "0", "1", "2", "8">>
    /\ YieldsTheNumber

(***************************************************************************)
(* Statement::parse_with_table_map through parse_format_error              *)
(***************************************************************************)
MaxList == 3        \* longest name list and longest value list tried

id == <<"i", "d">>
name == <<"n", "a", "m", "e">>
age == <<"a", "g", "e">>
t == <<"t">>

\* The catalog: table t(id int8, name varchar(3)).
TableMap == (t :> (id :> Column(id, IntegerType("I8")) @@ name :> Column(name, VarChar(3))))

Names == {id, name, age, <<>>}
Literals == {<<"7">>, <<"3", "0", "0">>, <<"'", "a", "b", "'">>,
             <<"'", "a", "b", "c", "d", "'">>}

NonEmptySeqs(S, n) == SeqsUpTo(S, n) \ {<<>>}

\* Whitespace put around the parentheses and commas of a statement.
Whitespace(bo, ao, bc, ac, bcl, acl) ==
    [open_before |-> bo, open_after |-> ao, comma_before |-> bc,
     comma_after |-> ac, close_before |-> bcl, close_after |-> acl]
Plain == Whitespace(<<>>, <<>>, <<>>, <<" ">>, <<>>, <<>>)

\* The items of a list with its commas and the whitespace around them.
RECURSIVE Join(_, _)
Join(items, ws) ==
    IF items = <<>> THEN <<>>
    ELSE IF Len(items) = 1 THEN items[1]
    ELSE items[1] \o ws.comma_before \o <<",">> \o ws.comma_after \o Join(Tail(items), ws)

Parenthesized(items, ws) ==
    <<"(">> \o ws.open_after \o Join(items, ws) \o ws.close_before \o <<")">>

InsertHead(sh) ==
    <<"I", "N", "S", "E", "R", "T", " ", "I", "N", "T", "O", " ">> \o sh.table
        \o <<" ">> \o sh.ws.open_before

InsertMiddle(sh) == <<" ", "V", "A", "L", "U", "E", "S", " ">> \o sh.ws.open_before

RenderInsert(sh) ==
    InsertHead(sh) \o Parenthesized(sh.names, sh.ws) \o InsertMiddle(sh)
        \o Parenthesized(sh.literals, sh.ws) \o sh.ws.close_after

\* Where the k-th item of a list starts, the list's "(" being at offset at.
ItemOffset(items, ws, at, k) ==
    at + 1 + Len(ws.open_after) + Len(Join(SubSeq(items, 1, k - 1), ws))
        + (IF k > 1 THEN Len(ws.comma_before) + 1 + Len(ws.comma_after) ELSE 0)

NameOffset(sh, k) == ItemOffset(sh.names, sh.ws, Len(InsertHead(sh)), k)
LiteralOffset(sh, k) ==
    ItemOffset(sh.literals, sh.ws,
               Len(InsertHead(sh) \o Parenthesized(sh.names, sh.ws) \o InsertMiddle(sh)), k)

InsertShapes ==
    {[kind |-> "insert", table |-> t, names |-> ns, literals |-> ls, ws |-> Plain] :
        ns \in NonEmptySeqs(Names, MaxList), ls \in SeqsUpTo(Literals, MaxList)}

InitInsert ==
    /\ pc = "start"
    /\ shape \in InsertShapes
    /\ input = RenderInsert(shape)
    /\ tp = None
    /\ tree = None
    /\ output = None

\* parse_format_error(input, |i| Statement::parse_with_table_map(&table_map, i))
ParseInsert ==
    /\ pc = "start"
    /\ shape.kind = "insert"
    /\ pc' = "done"
    /\ output' = parse_format_error(input, parse_with_table_map(TableMap, input, 0))
    /\ UNCHANGED <<input, shape, tp, tree>>

NextInsert == ParseInsert

SpecInsert == InitInsert /\ [][NextInsert]_vars

(***************************************************************************)
(* Claims about INSERT                                                     *)
(***************************************************************************)
IsInsertDone == pc = "done" /\ shape.kind = "insert"

ColumnsOf(sh) == TableMap[sh.table]
AllNamesKnown(sh) == \A k \in 1..Len(sh.names) : sh.names[k] \in DOMAIN ColumnsOf(sh)

\* The literal, parsed on its own with the given type.
Alone(type, literal) == parse_with_type(type, literal, 0)
ValidFor(type, literal) ==
    Alone(type, literal).ok /\ Alone(type, literal).rest = Len(literal)

\* The k-th literal is valid for the column the k-th name names.
ValidAt(sh, k) == ValidFor(ColumnsOf(sh)[sh.names[k]].tp, sh.literals[k])

SpanAt(offset, fragment) ==
    [offset |-> offset, line |-> location_line(input, offset), fragment |-> fragment]

\* C1: a successfully parsed INSERT has one value per name of its name
\* list; the k-th entry carries the span of the k-th name and the k-th
\* literal parsed with the catalog type of the column that name names,
\* whatever the order of the names: (name, id) VALUES ('ab', 7) binds
\* name = 'ab' and id = 7.
C1_ValuesBoundByNamePosition ==
    /\ IsInsertDone /\ output.ok =>
          LET vs == output.result.values
          IN  /\ Len(vs) = Len(shape.names)
              /\ Len(vs) = Len(shape.literals)
              /\ \A k \in 1..Len(vs) :
                    /\ vs[k][1] = SpanAt(NameOffset(shape, k), shape.names[k])
                    /\ vs[k][2][1] = SpanAt(LiteralOffset(shape, k), shape.literals[k])
                    /\ ValidAt(shape, k)
                    /\ vs[k][2][2] =
                          Alone(ColumnsOf(shape)[shape.names[k]].tp, shape.literals[k]).out[2]
    /\ /\ IsInsertDone
       /\ shape.names = <<name, id>>
       /\ shape.literals = << <<"'", "a", "b", "'">>, <<"7">> >>
       => /\ output.ok
          /\ output.result.values[1][1].fragment = name
          /\ output.result.values[1][2][2] = [variant |-> "VarChar", s |-> <<"a", "b">>]
          /\ output.result.values[2][1].fragment = id
          /\ output.result.values[2][2][2] =
                [variant |-> "I8", neg |-> FALSE, digits |-> <<"7">>]

\* A statement whose names are not in declaration order parsed.
C1_Witness ==
    /\ IsInsertDone
    /\ output.ok
    /\ shape.names = <<name, id, name>>
    /\ Len(output.result.values) = 3

\* C2: more literals than names (names known, the first values valid) fails
\* with expected ')' located at the first excess literal.
C2_ExcessValueReportedAtTheLiteral ==
    /\ IsInsertDone
    /\ AllNamesKnown(shape)
    /\ Len(shape.literals) > Len(shape.names)
    /\ \A k \in 1..Len(shape.names) : ValidAt(shape, k)
    => /\ ~output.ok
       /\ output.error.kind = ExpectedChar(")")
       /\ output.error.span = LiteralOffset(shape, Len(shape.names) + 1)

IsTooFewValues ==
    /\ IsInsertDone
    /\ AllNamesKnown(shape)
    /\ Len(shape.literals) < Len(shape.names)
    /\ \A k \in 1..Len(shape.literals) : ValidAt(shape, k)

FirstUnusedNameReported ==
    /\ ~output.ok
    /\ output.error.kind = External("ColumnNotUsed")
    /\ output.error.span = NameOffset(shape, Len(shape.literals) + 1)

\* C3 as stated: fewer literals than names (names known, every literal
\* valid for its column) fails with ColumnNotUsed at the span of the first
\* name, in textual order, that received no value, for any number of
\* missing values.
C3_FirstUnusedNameReported ==
    IsTooFewValues => FirstUnusedNameReported

\* C3 amended: the same for a value list that holds at least one literal;
\* with every value missing, "VALUES ()", the parse fails on the missing
\* first value instead.
C3_FirstUnusedNameReportedAfterAValue ==
    /\ IsTooFewValues /\ Len(shape.literals) >= 1 => FirstUnusedNameReported
    /\ IsTooFewValues /\ Len(shape.literals) = 0 =>
          /\ ~output.ok
          /\ output.error.kind # External("ColumnNotUsed")
          /\ output.error.span = LiteralOffset(shape, 1)

\* Two of three names received no value.
C3_Witness ==
    /\ IsTooFewValues
    /\ Len(shape.names) = 3
    /\ Len(shape.literals) = 1
    /\ FirstUnusedNameReported

FirstUnknownName(sh) ==
    CHOOSE k \in 1..Len(sh.names) :
        /\ sh.names[k] \notin DOMAIN ColumnsOf(sh)
        /\ \A m \in 1..(k - 1) : sh.names[m] \in DOMAIN ColumnsOf(sh)

\* C4: a name list with a name the table's column map lacks fails with
\* ColumnNotFound at that name's span, the first such name in textual
\* order, and returns no statement.
C4_UnknownNameReported ==
    IsInsertDone /\ ~AllNamesKnown(shape) =>
        /\ ~output.ok
        /\ output.error.kind = External("ColumnNotFound")
        /\ output.error.span = NameOffset(shape, FirstUnknownName(shape))

\* Two unknown names after a known one: the first unknown one is reported.
C4_Witness ==
    /\ IsInsertDone
    /\ shape.names = <<id, age, age>>
    /\ ~output.ok
    /\ output.error.kind = External("ColumnNotFound")

\* C5: a successfully parsed INSERT has as many values as the referenced
\* table has declared columns.
C5_OneValuePerDeclaredColumn ==
    IsInsertDone /\ output.ok =>
        Len(output.result.values) = Cardinality(DOMAIN ColumnsOf(shape))

\* C6: in a successfully parsed INSERT every column name of the name list
\* appears exactly once among the values.
C6_EachNameOnceAmongValues ==
    IsInsertDone /\ output.ok =>
        \A n \in Range(shape.names) :
            Cardinality({k \in 1..Len(output.result.values) :
                            output.result.values[k][1].fragment = n}) = 1

(***************************************************************************)
(* Statements written with extra whitespace                                *)
(***************************************************************************)
\* The places of a statement where extra whitespace is put, and what is put.
Gaps == {"open_before", "open_after", "comma_before", "comma_after",
         "close_before", "close_after"}
ExtraWhitespace == {<<" ">>, <<"\n">>, <<" ", "\n">>}

\* Plain spacing with `extra` added at the gaps of G.
Spaced(G, extra) ==
    [g \in Gaps |-> Plain[g] \o (IF g \in G THEN extra ELSE <<>>)]

ColumnTexts ==
    {[name |-> id, type |-> int8], [name |-> name, type |-> varchar \o <<"(", "3", ")">>]}

RenderColumn(c) == c.name \o <<" ">> \o c.type

RenderCreate(sh) ==
    <<"C", "R", "E", "A", "T", "E", " ", "T", "A", "B", "L", "E", " ">> \o sh.table
        \o <<" ">> \o sh.ws.open_before
        \o Parenthesized([k \in 1..Len(sh.columns) |-> RenderColumn(sh.columns[k])], sh.ws)
        \o sh.ws.close_after

MaxColumns == 2     \* longest lists of the statements written with extra whitespace

CreateBodies ==
    {[kind |-> "create", table |-> t, columns |-> cs] :
        cs \in NonEmptySeqs(ColumnTexts, MaxColumns)}
InsertBodies ==
    {[kind |-> "insert", table |-> t, names |-> ns, literals |-> ls] :
        ns \in NonEmptySeqs({id, name}, MaxColumns),
        ls \in NonEmptySeqs({<<"7">>, <<"'", "a", "b", "'">>}, MaxColumns)}

WithWs(body, ws) == [g \in DOMAIN body \cup {"ws"} |-> IF g = "ws" THEN ws ELSE body[g]]

Render(sh) == IF sh.kind = "create" THEN RenderCreate(sh) ELSE RenderInsert(sh)

InitWhitespace ==
    /\ pc = "start"
    /\ \E body \in CreateBodies \cup InsertBodies, G \in SUBSET Gaps, extra \in ExtraWhitespace :
          shape = WithWs(body, Spaced(G, extra))
    /\ input = Render(shape)
    /\ tp = None
    /\ tree = None
    /\ output = None

\* parse_format_error(input, Statement::parse) of a CREATE TABLE statement
ParseCreate ==
    /\ pc = "start"
    /\ shape.kind = "create"
    /\ pc' = "done"
    /\ output' = parse_format_error(input, create_Statement_parse(input, 0))
    /\ UNCHANGED <<input, shape, tp, tree>>

NextWhitespace == ParseCreate \/ ParseInsert

SpecWhitespace == InitWhitespace /\ [][NextWhitespace]_vars

\* What the entry point returns for a statement text.
Parsed(kind, src) ==
    IF kind = "create"
    THEN parse_format_error(src, create_Statement_parse(src, 0))
    ELSE parse_format_error(src, parse_with_table_map(TableMap, src, 0))

\* A statement without its spans: the table name, and the column names and
\* types or the value names and values, in order.
Content(kind, st) ==
    IF kind = "create"
    THEN [table |-> st.table_name.fragment,
          items |-> [k \in 1..Len(st.columns) |->
                        <<st.columns[k].name.fragment, st.columns[k].tp[2]>>]]
    ELSE [table |-> st.table_name.fragment,
          items |-> [k \in 1..Len(st.values) |->
                        <<st.values[k][1].fragment, st.values[k][2][2]>>]]

\* C9: extra spaces or newlines around the commas and parentheses of a
\* CREATE TABLE or INSERT statement that parses through the
\* full-consumption entry point leave it parsing, with the same table name,
\* column names and types, and values in the same order.
C9_WhitespaceDoesNotChangeTheStatement ==
    pc = "done" =>
        LET plain == Parsed(shape.kind, Render([shape EXCEPT !.ws = Plain]))
        IN  plain.ok =>
                /\ output.ok
                /\ Content(shape.kind, output.result) = Content(shape.kind, plain.result)

(***************************************************************************)
(* format_parse_error on an error tree                                     *)
(***************************************************************************)
MaxAlts == 3        \* most candidates of an alternation
MaxContexts == 2    \* deepest context stack of a candidate

\* A stack of d contexts, the outermost last.
RECURSIVE Contexts(_)
Contexts(d) == IF d = 0 THEN <<>> ELSE Append(Contexts(d - 1), <<d - 1, "Value">>)

\* A candidate: a base error at a location, under d contexts.
Candidate(location, d) ==
    IF d = 0 THEN Base(location, ExpectedChar(")"))
    ELSE [t |-> "Stack", base |-> Base(location, ExpectedChar(")")), contexts |-> Contexts(d)]

Candidates == {Candidate(l, d) : l \in 0..1, d \in 0..MaxContexts}
Alternations == {[t |-> "Alt", alts |-> as] : as \in NonEmptySeqs(Candidates, MaxAlts)}
Trees ==
    Candidates \cup Alternations
        \cup {add_context(0, "Column Type", a) : a \in Alternations}

InitFormat ==
    /\ pc = "start"
    /\ tree \in Trees
    /\ input = <<>>
    /\ shape = None
    /\ tp = None
    /\ output = None

FormatError ==
    /\ pc = "start"
    /\ pc' = "done"
    /\ output' = format_parse_error(tree)
    /\ UNCHANGED <<input, shape, tp, tree>>

NextFormat == FormatError

SpecFormat == InitFormat /\ [][NextFormat]_vars

IsAlternationDone == pc = "done" /\ tree.t = "Alt"

\* The number of contexts each candidate of the alternation accumulated,
\* and the candidates that have the most.
Depth(e) == IF e.t = "Stack" THEN Len(e.contexts) ELSE 0
Deepest ==
    {k \in 1..Len(tree.alts) :
        \A m \in 1..Len(tree.alts) : Depth(tree.alts[m]) <= Depth(tree.alts[k])}
FirstOf(S) == CHOOSE k \in S : \A m \in S : k <= m
LastOf(S) == CHOOSE k \in S : \A m \in S : m <= k

\* C10 as stated: format_parse_error of an alternation returns the
\* formatting of the candidate with the most accumulated contexts, the
\* first of them in the alternation's order when several have the most.
C10_DeepestCandidateFirstOnTies ==
    IsAlternationDone => output = format_parse_error(tree.alts[FirstOf(Deepest)])

\* C10 amended: ... the last of them in the alternation's order when
\* several have the most.
C10_DeepestCandidateLastOnTies ==
    IsAlternationDone =>
        /\ output = format_parse_error(tree.alts[LastOf(Deepest)])
        /\ \A k \in 1..Len(tree.alts) : Len(output.others) >= Depth(tree.alts[k])

\* Two candidates at different places share the deepest stack, after a
\* shallower one.
C10_Witness ==
    /\ IsAlternationDone
    /\ Len(tree.alts) = 3
    /\ Deepest = {2, 3}
    /\ tree.alts[2] # tree.alts[3]
    /\ output = format_parse_error(tree.alts[3])

(***************************************************************************)
(* SqlType::parse on a type keyword                                        *)
(***************************************************************************)
to_uppercase(c) ==
    IF c \in Range(LowerCase)
    THEN UpperCase[CHOOSE k \in 1..Len(LowerCase) : LowerCase[k] = c]
    ELSE c

\* The keywords in the order of the alternatives, varchar first.
Keywords == <<varchar>> \o [k \in 1..Len(IntKeywords) |-> IntKeywords[k][1]]

\* The sizes written after varchar, each with the number it denotes.
TypeSizes ==
    {[digits |-> Zeros(z) \o d[1], number |-> d[2]] :
        z \in 0..MaxZeros,
        d \in {<< <<"0">>, 0 >>, << <<"7">>, 7 >>, << <<"1", "0">>, 10 >>,
               << <<"2", "5", "5">>, 255 >>}}

\* What follows the type in a column definition, or other text.
TypeSuffixes == {<<>>, <<",">>, <<" ", ")">>, <<"8">>, <<"x">>}

\* The keyword with the letters at the positions of `upper` in upper case.
Cased(word, upper) ==
    [k \in 1..Len(word) |-> IF k \in upper THEN to_uppercase(word[k]) ELSE word[k]]

LetterPositions(word) == {k \in 1..Len(word) : word[k] \in Range(LowerCase)}

TypeShapes ==
    {[kind |-> "type", keyword |-> 1, upper |-> u, size |-> n, suffix |-> sf] :
        u \in SUBSET LetterPositions(varchar), n \in TypeSizes, sf \in {<<>>, <<",">>}}
    \cup UNION {
        {[kind |-> "type", keyword |-> k, upper |-> u, size |-> None, suffix |-> sf] :
            u \in SUBSET LetterPositions(Keywords[k]), sf \in TypeSuffixes} :
        k \in 2..Len(Keywords)}

\* The text of the type alone, and the text handed to the parser.
TypeText(sh) ==
    Cased(Keywords[sh.keyword], sh.upper)
        \o (IF sh.keyword = 1 THEN <<"(">> \o sh.size.digits \o <<")">> ELSE <<>>)
RenderType(sh) == TypeText(sh) \o sh.suffix

InitType ==
    /\ pc = "start"
    /\ shape \in TypeShapes
    /\ input = RenderType(shape)
    /\ tp = None
    /\ tree = None
    /\ output = None

ParseType ==
    /\ pc = "start"
    /\ pc' = "done"
    /\ output' = SqlType_parse(input, 0)
    /\ UNCHANGED <<input, shape, tp, tree>>

NextType == ParseType

SpecType == InitType /\ [][NextType]_vars

\* The type a keyword stands for.
TypeOfKeyword(sh) ==
    IF sh.keyword = 1 THEN [variant |-> "VarChar", size |-> sh.size.number]
    ELSE [variant |-> IntKeywords[sh.keyword - 1][2]]

IsPrefix(a, b) == Len(a) <= Len(b) /\ SubSeq(b, 1, Len(a)) = a

\* C11: every valid type keyword, in any mix of letter case (varchar(N),
\* int8 ... int128, uint8 ... uint128), parses to its type and exactly the
\* keyword text is consumed; no alternative tried earlier is a prefix of a
\* longer keyword.
C11_KeywordParsesToItsType ==
    /\ pc = "done" =>
          /\ output.ok
          /\ output.out = TypeOfKeyword(shape)
          /\ output.rest = Len(TypeText(shape))
    /\ \A j, k \in 1..Len(Keywords) : j < k => ~IsPrefix(Keywords[j], Keywords[k])

\* int128 in mixed case, with text after it, was read as the 128-bit type.
C11_Witness ==
    /\ pc = "done"
    /\ Keywords[shape.keyword] = int128
    /\ shape.upper = {1, 3}
    /\ shape.suffix = <<"8">>
    /\ output.ok
    /\ output.out = [variant |-> "I128"]
    /\ output.rest = 6

(***************************************************************************)
(* An integer literal that does not fit its column                         *)
(***************************************************************************)
IsIntegerLiteral(l) == l # <<>> /\ \A k \in 1..Len(l) : l[k] \in Range(DigitChars) \cup {"-"}

\* The k-th literal is an integer literal for an integer column that does
\* not take it, after literals their columns do take.
UnfitIntegerAt(sh, k) ==
    /\ k <= Len(sh.names)
    /\ \A j \in 1..(k - 1) : ValidAt(sh, j)
    /\ ColumnsOf(sh)[sh.names[k]].tp.variant \in IntVariants
    /\ IsIntegerLiteral(sh.literals[k])
    /\ ~ValidAt(sh, k)

\* C12: in an INSERT whose names are all known, an integer literal at any
\* position of the value list that does not fit its column's width or
\* signedness makes the statement fail with a numeric-conversion cause
\* located at that literal.
C12_UnfitIntegerReportedAtTheLiteral ==
    IsInsertDone /\ AllNamesKnown(shape) =>
        \A k \in 1..Len(shape.literals) :
            UnfitIntegerAt(shape, k) =>
                /\ ~output.ok
                /\ output.error.kind.k = "External"
                /\ output.error.kind.what \in {"InvalidDigit", "PosOverflow", "NegOverflow"}
                /\ output.error.span = LiteralOffset(shape, k)


(***************************************************************************)
(* The spans of a parsed CREATE TABLE statement                            *)
(***************************************************************************)
IsCreateParsed == pc = "done" /\ shape.kind = "create" /\ output.ok

\* The span says where its text is in the input: the input sliced at its
\* offset for its length is its text, and its line is the line of that
\* offset.
Locates(span) ==
    /\ span.offset + Len(span.fragment) <= Len(input)
    /\ Slice(input, span.offset, span.offset + Len(span.fragment)) = span.fragment
    /\ span.line = location_line(input, span.offset)

\* Where the table name starts: after "CREATE TABLE ".
TableNameOffset == Len(create) + 1 + Len(table) + 1

ColumnSpansLocate ==
    \A k \in 1..Len(output.result.columns) :
        /\ Locates(output.result.columns[k].name)
        /\ Locates(output.result.columns[k].tp[1])

\* C13: every span of a successfully parsed CREATE TABLE statement (table
\* name, column names, column types) carries the offset and line at which
\* its text occurs in the input; the table-name span's offset is the
\* position of the table name.
C13_SpansLocateTheirText ==
    IsCreateParsed =>
        /\ Locates(output.result.table_name)
        /\ output.result.table_name.offset = TableNameOffset
        /\ ColumnSpansLocate


(***************************************************************************)
(* CREATE TABLE statements with empty, longest and over-long names         *)
(***************************************************************************)
Run(c, n) == [k \in 1..n |-> c]

\* No name, a short name, a name of the greatest length the scanner takes,
\* and a name one character longer.
NameTexts == {<<>>, id, Run("a", IdentifierMax), Run("a", IdentifierMax + 1)}

NameShapes ==
    {[kind |-> "create", table |-> tn,
      columns |-> [k \in 1..Len(cs) |-> [name |-> cs[k], type |-> int8]],
      ws |-> Spaced(G, <<" ">>)] :
        tn \in NameTexts, cs \in NonEmptySeqs(NameTexts, MaxColumns),
        G \in SUBSET (Gaps \ {"close_after"})}

InitNames ==
    /\ pc = "start"
    /\ shape \in NameShapes
    /\ input = RenderCreate(shape)
    /\ tp = None
    /\ tree = None
    /\ output = None

NextNames == ParseCreate

SpecNames == InitNames /\ [][NextNames]_vars

NamesWritten(sh) == {sh.table} \cup {sh.columns[k].name : k \in 1..Len(sh.columns)}

\* C14: a CREATE TABLE statement that parses has a table name and column
\* names of 1 to 128 characters each; a statement written with an empty or
\* over-long name fails.
C14_ParsedNamesAreOfProperLength ==
    /\ IsCreateParsed =>
          /\ Len(output.result.table_name.fragment) \in 1..IdentifierMax
          /\ \A k \in 1..Len(output.result.columns) :
                Len(output.result.columns[k].name.fragment) \in 1..IdentifierMax
    /\ /\ pc = "done"
       /\ shape.kind = "create"
       /\ \E n \in NamesWritten(shape) : Len(n) = 0 \/ Len(n) > IdentifierMax
       => ~output.ok

\* A statement with names of the greatest length parsed, and they were
\* kept whole.
C14_Witness ==
    /\ IsCreateParsed
    /\ Len(output.result.table_name.fragment) = IdentifierMax
    /\ Len(output.result.columns) = 2
    /\ Len(output.result.columns[2].name.fragment) = IdentifierMax


====
